---- MODULE Spec2Model ----
(***************************************************************************)
(* Model of package reporter (reporter.go): the YamlReporter builder New   *)
(* with its functional options, and the two read operations List and Get.  *)
(*                                                                         *)
(* The dynamic client (k8s.io/client-go/dynamic) and the YAML library      *)
(* (github.com/ghodss/yaml) are collaborators outside the repository.      *)
(* They are modelled by their contracts as the code and the tests use      *)
(* them: StoreList / StoreGet / Resource for the client, Marshal for the   *)
(* YAML library.                                                           *)
(***************************************************************************)
EXTENDS Integers, Sequences, FiniteSets, TLC

VARIABLES
    newRet,    \* what the last call of New did: its options and its outcome
    store,     \* the objects the backing store holds (behind the client)
    ret        \* what the last call of List or Get did, made on the store as
               \* it is now: its arguments, the store's answer and the
               \* returned values; NoCall when the store changed since

vars == <<newRet, store, ret>>

-----------------------------------------------------------------------------
(* Bounds of the model *)

\* longest option list handed to New
MaxOpts == 3
\* largest number of objects held by the backing store
MaxStore == 2

-----------------------------------------------------------------------------
(* Values *)

\* the two error values of reporter.go, and the errors of the collaborators
NoDynamicCliSetError == "NoDynamicCliSetError"
NoGroupVersionResourceSetError == "NoGroupVersionResourceSetError"
NilError == "nil"
\* an access error of the backing store (authorization, connectivity, ...)
StoreError == "StoreError"
\* the backing store's not-found error (apierrors.IsNotFound)
NotFoundError == "NotFound"
\* the YAML library's serialization error
MarshalError == "MarshalError"

\* a nil dynamic.Interface value, and the non-nil clients
NilIface == "nil"
Clients == {"cliA", "cliB"}

\* schema.GroupVersionResource values; ZeroGVR is the zero value
ZeroGVR == [group |-> "", version |-> "", resource |-> ""]
PodsGVR == [group |-> "group", version |-> "version", resource |-> "pods"]
DeploysGVR == [group |-> "group2", version |-> "version", resource |-> "deploys"]
GVRs == {PodsGVR, DeploysGVR}

\* the zero value of dynamic.NamespaceableResourceInterface (a nil interface)
NilResource == [cli |-> NilIface, gvr |-> ZeroGVR]

\* YamlReporter{}: both pointers nil, the handle nil
ZeroReporter ==
    [dynamicCli |-> [isNil |-> TRUE, iface |-> NilIface],
     gvrSchema  |-> [isNil |-> TRUE, gvr |-> ZeroGVR],
     resource   |-> NilResource]

-----------------------------------------------------------------------------
(* Options and New *)

\* WithDynamicClient(dynamicCli): any dynamic.Interface value, nil included
WithDynamicClient(dynamicCli) == [kind |-> "dynCli", cli |-> dynamicCli, schema |-> ZeroGVR]

\* WithGVRSchema(schema)
WithGVRSchema(schema) == [kind |-> "gvr", cli |-> NilIface, schema |-> schema]

\* opt.apply(instance): each option stores the ADDRESS of its own field, so
\* the pointer is non-nil after apply whatever the field holds
apply(opt, opts) ==
    IF opt.kind = "dynCli"
    THEN [opts EXCEPT !.dynamicCli = [isNil |-> FALSE, iface |-> opt.cli]]
    ELSE [opts EXCEPT !.gvrSchema = [isNil |-> FALSE, gvr |-> opt.schema]]

\* for _, opt := range opts { opt.apply(instance) }
RECURSIVE applyAll(_, _)
applyAll(opts, instance) ==
    IF opts = <<>> THEN instance
    ELSE applyAll(Tail(opts), apply(Head(opts), instance))

\* mutant: the two checks in the other order
checkConfig_gvrFirst(r) ==
    IF r.gvrSchema.isNil THEN NoGroupVersionResourceSetError
    ELSE IF r.dynamicCli.isNil THEN NoDynamicCliSetError
    ELSE NilError

\* mutant: the descriptor check reports the client error
checkConfig_oneError(r) ==
    IF r.dynamicCli.isNil \/ r.gvrSchema.isNil THEN NoDynamicCliSetError
    ELSE NilError

\* (r YamlReporter) checkConfig()
checkConfig(r) ==
    IF r.dynamicCli.isNil THEN NoDynamicCliSetError
    ELSE IF r.gvrSchema.isNil THEN NoGroupVersionResourceSetError
    ELSE NilError

\* dynamic.Interface.Resource(gvr): the client narrowed to one resource type
Resource(cli, gvr) == [cli |-> cli, gvr |-> gvr]

\* New(opts...): outcome "returned" with (instance, err), or outcome "panic"
\* when Resource is called through a nil interface value
New(opts) ==
    LET instance == applyAll(opts, ZeroReporter)
        err == checkConfig(instance)
    IN  IF err # NilError
        THEN [outcome |-> "returned", instance |-> ZeroReporter, err |-> err]
        ELSE IF instance.dynamicCli.iface = NilIface
        THEN [outcome |-> "panic", instance |-> ZeroReporter, err |-> NilError]
        ELSE [outcome |-> "returned",
              instance |-> [instance EXCEPT !.resource =
                               Resource(instance.dynamicCli.iface, instance.gvrSchema.gvr)],
              err |-> NilError]

-----------------------------------------------------------------------------
(* The backing store behind the dynamic client *)

\* the object kinds of the store, and the resource each kind is served under
ResourceOfKind(kind) == IF kind = "Pod" THEN "pods" ELSE "deploys"

\* apiVersion + kind of the stored objects (as newUnstructured builds them)
TypeMetas ==
    {[group |-> "group", version |-> "version", kind |-> "Pod"],
     [group |-> "group2", version |-> "version", kind |-> "Deploy"]}

ObjNamespaces == {"ns-foo", "ns-bar"}
ObjNames == {"name-foo", "name-foo2"}
\* kind-specific content: nothing more, a label app=x, or a value (NaN) the
\* serializer cannot represent
ObjData == {"plain", "labelled", "nan"}

\* unstructured.Unstructured: apiVersion, kind, metadata.namespace,
\* metadata.name, and the kind-specific rest. The objects the store is
\* populated from: Pods of ns-foo with every content, and plain Pods of ns-bar
\* and plain Deploys of ns-foo beside them.
Objects ==
    {o \in [group : {t.group : t \in TypeMetas}, version : {t.version : t \in TypeMetas},
            kind : {t.kind : t \in TypeMetas}, namespace : ObjNamespaces,
            name : ObjNames, data : ObjData] :
        /\ [group |-> o.group, version |-> o.version, kind |-> o.kind] \in TypeMetas
        /\ o.data # "plain" => o.kind = "Pod" /\ o.namespace = "ns-foo"
        /\ o.kind = "Deploy" => o.namespace = "ns-foo"}

\* the resource type an object is an instance of
GVROf(o) == [group |-> o.group, version |-> o.version, resource |-> ResourceOfKind(o.kind)]

\* the identity of an object in the store
KeyOf(o) == <<GVROf(o), o.namespace, o.name>>

\* metav1.ListOptions (the label selector is what the store filters by) and
\* metav1.GetOptions
ListOptionsSet == {[labelSelector |-> ""], [labelSelector |-> "app=x"]}
GetOptionsSet == {[resourceVersion |-> ""], [resourceVersion |-> "0"]}

\* the namespaces a caller asks for; "" is the empty namespace
Namespaces == {"", "ns-foo"}

\* context.Context values handed to List and Get
Contexts == {"live", "cancelled"}

\* how the store behaves during one call: it answers, or its first query
\* fails and later ones would succeed
Faults == {"none", "transient"}
QueryFails(fault, attempt) == fault = "transient" /\ attempt = 1

\* all orders in which the objects of S can be returned
Perms(S) ==
    {s \in [1..Cardinality(S) -> S] : \A i, j \in DOMAIN s : s[i] = s[j] => i = j}

\* what List of the store selects: the resource type, the namespace ("" means
\* all namespaces) and the label selector
Selected(o, gvr, namespace, options) ==
    /\ GVROf(o) = gvr
    /\ namespace = "" \/ o.namespace = namespace
    /\ options.labelSelector = "" \/ o.data = "labelled"

\* The store as one call meets it, srv: the objects it holds, the order it
\* returns them in, and whether it fails.
\* resource.Namespace(namespace).List(options), as the store answers the
\* attempt-th query of the call
StoreList(srv, gvr, namespace, options, attempt) ==
    IF QueryFails(srv.fault, attempt)
    THEN [items |-> <<>>, err |-> StoreError]
    ELSE [items |-> SelectSeq(srv.order, LAMBDA o : Selected(o, gvr, namespace, options)),
          err |-> NilError]

\* resource.Namespace(namespace).Get(name, options)
StoreGet(srv, gvr, namespace, name, options, attempt) ==
    LET found == {o \in srv.objects : KeyOf(o) = <<gvr, namespace, name>>}
    IN  IF QueryFails(srv.fault, attempt)
        THEN [items |-> <<>>, err |-> StoreError]
        ELSE IF found = {}
        THEN [items |-> <<>>, err |-> NotFoundError]
        ELSE [items |-> <<CHOOSE o \in found : TRUE>>, err |-> NilError]

-----------------------------------------------------------------------------
(* YAML *)

\* yaml.Marshal(obj): the keys of every map in sorted order, one line each; a
\* line is its tokens. Fails on a value JSON cannot encode.
Marshal(o) ==
    IF o.data = "nan"
    THEN [out |-> <<>>, err |-> MarshalError]
    ELSE [out |->
            <<IF o.group = "" THEN <<"apiVersion:", o.version>>
                              ELSE <<"apiVersion:", o.group, "/", o.version>>,
              <<"kind:", o.kind>>,
              <<"metadata:">>>>
            \o (IF o.data = "labelled"
                THEN << <<"  labels:">>, <<"    app:", "x">> >>
                ELSE <<>>)
            \o << <<"  name:", o.name>>, <<"  namespace:", o.namespace>> >>,
          err |-> NilError]

\* string(out) of no bytes
EmptyString == <<>>

\* whether the text holds s (as a token of one of its lines)
ContainsSubstring(text, s) ==
    \E i \in DOMAIN text : \E j \in DOMAIN text[i] : text[i][j] = s

-----------------------------------------------------------------------------
(* List and Get *)

\* a nil []string, and a []string holding elems
NilSlice == [isNil |-> TRUE, elems |-> <<>>]
Slice(elems) == [isNil |-> FALSE, elems |-> elems]

\* the loop of List over unstructuredList.Items, resources being the slice
\* built so far
RECURSIVE marshalItems(_, _)
marshalItems(items, resources) ==
    IF items = <<>> THEN [list |-> Slice(resources), err |-> NilError]
    ELSE LET m == Marshal(Head(items))
         IN  IF m.err # NilError
             THEN [list |-> NilSlice, err |-> m.err]
             ELSE marshalItems(Tail(items), Append(resources, m.out))

\* mutant: the strings are collected newest first
RECURSIVE Reverse(_)
Reverse(seq) == IF seq = <<>> THEN <<>> ELSE Append(Reverse(Tail(seq)), Head(seq))

List_newestFirst(r, ctx, namespace, options, srv) ==
    LET unstructuredList == StoreList(srv, r.resource.gvr, namespace, options, 1)
    IN  IF unstructuredList.err # NilError
        THEN [list |-> NilSlice, err |-> unstructuredList.err,
              queries |-> 1, items |-> unstructuredList.items]
        ELSE LET done == marshalItems(unstructuredList.items, <<>>)
             IN  [list |-> [done.list EXCEPT !.elems = Reverse(@)], err |-> done.err,
                  queries |-> 1, items |-> unstructuredList.items]

\* mutant: an empty answer of the store is reported as not found
List_errOnEmpty(r, ctx, namespace, options, srv) ==
    LET unstructuredList == StoreList(srv, r.resource.gvr, namespace, options, 1)
    IN  IF unstructuredList.err # NilError
        THEN [list |-> NilSlice, err |-> unstructuredList.err,
              queries |-> 1, items |-> unstructuredList.items]
        ELSE IF unstructuredList.items = <<>>
        THEN [list |-> NilSlice, err |-> NotFoundError,
              queries |-> 1, items |-> unstructuredList.items]
        ELSE LET done == marshalItems(unstructuredList.items, <<>>)
             IN  [list |-> done.list, err |-> done.err,
                  queries |-> 1, items |-> unstructuredList.items]

\* mutant: a serialization error returns the strings built so far
RECURSIVE marshalItems_partial(_, _)
marshalItems_partial(items, resources) ==
    IF items = <<>> THEN [list |-> Slice(resources), err |-> NilError]
    ELSE LET m == Marshal(Head(items))
         IN  IF m.err # NilError
             THEN [list |-> Slice(resources), err |-> m.err]
             ELSE marshalItems_partial(Tail(items), Append(resources, m.out))

List_partial(r, ctx, namespace, options, srv) ==
    LET unstructuredList == StoreList(srv, r.resource.gvr, namespace, options, 1)
    IN  IF unstructuredList.err # NilError
        THEN [list |-> NilSlice, err |-> unstructuredList.err,
              queries |-> 1, items |-> unstructuredList.items]
        ELSE LET done == marshalItems_partial(unstructuredList.items, <<>>)
             IN  [list |-> done.list, err |-> done.err,
                  queries |-> 1, items |-> unstructuredList.items]

\* mutant: a failed query of the store is sent a second time
List_retry(r, ctx, namespace, options, srv) ==
    LET first == StoreList(srv, r.resource.gvr, namespace, options, 1)
        unstructuredList ==
            IF first.err # NilError
            THEN StoreList(srv, r.resource.gvr, namespace, options, 2)
            ELSE first
        queries == IF first.err # NilError THEN 2 ELSE 1
    IN  IF unstructuredList.err # NilError
        THEN [list |-> NilSlice, err |-> unstructuredList.err,
              queries |-> queries, items |-> unstructuredList.items]
        ELSE LET done == marshalItems(unstructuredList.items, <<>>)
             IN  [list |-> done.list, err |-> done.err,
                  queries |-> queries, items |-> unstructuredList.items]

\* mutant: a cancelled context ends the call before the store is queried
List_honoursCtx(r, ctx, namespace, options, srv) ==
    LET unstructuredList == StoreList(srv, r.resource.gvr, namespace, options, 1)
    IN  IF ctx = "cancelled"
        THEN [list |-> NilSlice, err |-> "context canceled",
              queries |-> 0, items |-> <<>>]
        ELSE IF unstructuredList.err # NilError
        THEN [list |-> NilSlice, err |-> unstructuredList.err,
              queries |-> 1, items |-> unstructuredList.items]
        ELSE LET done == marshalItems(unstructuredList.items, <<>>)
             IN  [list |-> done.list, err |-> done.err,
                  queries |-> 1, items |-> unstructuredList.items]

\* (r YamlReporter) List(ctx, namespace, options): the returned (list, err),
\* with the number of queries it sent to the store and the items the store
\* answered with
List(r, ctx, namespace, options, srv) ==
    LET unstructuredList == StoreList(srv, r.resource.gvr, namespace, options, 1)
    IN  IF unstructuredList.err # NilError
        THEN [list |-> NilSlice, err |-> unstructuredList.err,
              queries |-> 1, items |-> unstructuredList.items]
        ELSE LET done == marshalItems(unstructuredList.items, <<>>)
             IN  [list |-> done.list, err |-> done.err,
                  queries |-> 1, items |-> unstructuredList.items]

\* mutant: name and namespace change places in the query
Get_swapped(r, ctx, name, namespace, options, srv) ==
    LET unstructuredObj == StoreGet(srv, r.resource.gvr, name, namespace, options, 1)
    IN  IF unstructuredObj.err # NilError
        THEN [str |-> EmptyString, err |-> unstructuredObj.err,
              queries |-> 1, items |-> unstructuredObj.items]
        ELSE LET m == Marshal(unstructuredObj.items[1])
             IN  IF m.err # NilError
                 THEN [str |-> EmptyString, err |-> m.err,
                       queries |-> 1, items |-> unstructuredObj.items]
                 ELSE [str |-> m.out, err |-> NilError,
                       queries |-> 1, items |-> unstructuredObj.items]

\* (r YamlReporter) Get(ctx, name, namespace, options): the returned
\* (string, err), with the number of queries and the store's answer
Get(r, ctx, name, namespace, options, srv) ==
    LET unstructuredObj == StoreGet(srv, r.resource.gvr, namespace, name, options, 1)
    IN  IF unstructuredObj.err # NilError
        THEN [str |-> EmptyString, err |-> unstructuredObj.err,
              queries |-> 1, items |-> unstructuredObj.items]
        ELSE LET m == Marshal(unstructuredObj.items[1])
             IN  IF m.err # NilError
                 THEN [str |-> EmptyString, err |-> m.err,
                       queries |-> 1, items |-> unstructuredObj.items]
                 ELSE [str |-> m.out, err |-> NilError,
                       queries |-> 1, items |-> unstructuredObj.items]

-----------------------------------------------------------------------------
(* State machine *)

\* the options a caller can build
Options ==
    {WithDynamicClient(c) : c \in Clients \cup {NilIface}}
        \cup {WithGVRSchema(g) : g \in GVRs}

OptionLists == UNION {[1..n -> Options] : n \in 0..MaxOpts}

NotCalled ==
    [called |-> FALSE, opts |-> <<>>, outcome |-> "none",
     instance |-> ZeroReporter, err |-> NilError]

NoCall ==
    [op |-> "none", ctx |-> "live", namespace |-> "", name |-> "",
     selector |-> "", fault |-> "none", items |-> <<>>,
     list |-> NilSlice, str |-> EmptyString, err |-> NilError, queries |-> 0]

\* a caller runs New(opts...)
NewCall(opts) ==
    /\ newRet' = [called |-> TRUE, opts |-> opts] @@ New(opts)
    /\ UNCHANGED <<store, ret>>

\* an object appears in the backing store
StoreAdd(o) ==
    /\ Cardinality(store) < MaxStore
    /\ \A p \in store : KeyOf(p) # KeyOf(o)
    /\ store' = store \cup {o}
    /\ ret' = NoCall
    /\ UNCHANGED newRet

\* an object disappears from the backing store
StoreDelete(o) ==
    /\ o \in store
    /\ store' = store \ {o}
    /\ ret' = NoCall
    /\ UNCHANGED newRet

\* the Reporter a caller may use: one New returned without error
Usable == newRet.called /\ newRet.outcome = "returned" /\ newRet.err = NilError

\* the ways the store can meet one call: it answers, returning its objects in
\* some order, or it fails
StoreBehaviours ==
    {[objects |-> store, order |-> s, fault |-> "none"] : s \in Perms(store)}
        \cup {[objects |-> store, order |-> CHOOSE s \in Perms(store) : TRUE, fault |-> f] :
                f \in Faults \ {"none"}}

\* a caller runs List on the Reporter it got from New
ListCall(ctx, namespace, options, srv) ==
    /\ Usable
    /\ LET got == List(newRet.instance, ctx, namespace, options, srv)
       IN  ret' = [op |-> "List", ctx |-> ctx, namespace |-> namespace, name |-> "",
                   selector |-> options.labelSelector, fault |-> srv.fault,
                   items |-> got.items, list |-> got.list, str |-> EmptyString,
                   err |-> got.err, queries |-> got.queries]
    /\ UNCHANGED <<newRet, store>>

\* a caller runs Get on the Reporter it got from New
GetCall(ctx, name, namespace, options, fault) ==
    /\ Usable
    /\ LET got == Get(newRet.instance, ctx, name, namespace, options,
                      [objects |-> store, order |-> CHOOSE s \in Perms(store) : TRUE,
                       fault |-> fault])
       IN  ret' = [op |-> "Get", ctx |-> ctx, namespace |-> namespace, name |-> name,
                   selector |-> "", fault |-> fault,
                   items |-> got.items, list |-> NilSlice, str |-> got.str,
                   err |-> got.err, queries |-> got.queries]
    /\ UNCHANGED <<newRet, store>>

\* construction alone: every option list
InitNew ==
    /\ newRet = NotCalled
    /\ store = {}
    /\ ret = NoCall

NextNew == \E opts \in OptionLists : NewCall(opts)

SpecNew == InitNew /\ [][NextNew]_vars

\* the read operations, on a Reporter New built from a client and a descriptor
Init ==
    /\ \E g \in GVRs :
         LET opts == <<WithDynamicClient("cliA"), WithGVRSchema(g)>>
         IN  newRet = [called |-> TRUE, opts |-> opts] @@ New(opts)
    /\ store = {}
    /\ ret = NoCall

Next ==
    \/ \E o \in Objects : StoreAdd(o)
    \/ \E o \in Objects : StoreDelete(o)
    \/ \E srv \in StoreBehaviours, ctx \in Contexts, namespace \in Namespaces,
          options \in ListOptionsSet :
            ListCall(ctx, namespace, options, srv)
    \/ \E ctx \in Contexts, name \in ObjNames, namespace \in Namespaces,
          options \in GetOptionsSet, fault \in Faults :
            GetCall(ctx, name, namespace, options, fault)

Spec == Init /\ [][Next]_vars

-----------------------------------------------------------------------------
(* Construction: C1, C2, C3, C10 (checked under SpecNew) *)

HasDynamicClientOption(opts) == \E i \in DOMAIN opts : opts[i].kind = "dynCli"
HasGVRSchemaOption(opts) == \E i \in DOMAIN opts : opts[i].kind = "gvr"

\* the last client and the last descriptor among the options
LastOf(opts, kind) ==
    opts[CHOOSE i \in DOMAIN opts :
            /\ opts[i].kind = kind
            /\ \A j \in DOMAIN opts : opts[j].kind = kind => j <= i]

\* C1: whenever no WithDynamicClient option is passed, New returns
\* NoDynamicCliSetError, with or without a WithGVRSchema option.
C1_MissingClient ==
    (newRet.called /\ ~HasDynamicClientOption(newRet.opts))
        => (newRet.outcome = "returned" /\ newRet.err = NoDynamicCliSetError)

\* C1 witness: New() with no option at all failed with the missing-client error
C1_Witness ==
    /\ newRet.called
    /\ newRet.opts = <<>>
    /\ newRet.err = NoDynamicCliSetError

\* C2: whenever a WithDynamicClient option is passed and no WithGVRSchema
\* option, New returns NoGroupVersionResourceSetError.
C2_MissingDescriptor ==
    (/\ newRet.called
     /\ HasDynamicClientOption(newRet.opts)
     /\ ~HasGVRSchemaOption(newRet.opts))
        => (newRet.outcome = "returned" /\ newRet.err = NoGroupVersionResourceSetError)

\* C2 witness: New(WithDynamicClient(cliA)) failed with the missing-descriptor error
C2_Witness ==
    /\ newRet.called
    /\ newRet.opts = <<WithDynamicClient("cliA")>>
    /\ newRet.err = NoGroupVersionResourceSetError

\* outcome (a) of New: no error, client, descriptor and handle set, the handle
\* being the supplied client narrowed to the supplied descriptor
FullyConfigured ==
    /\ newRet.outcome = "returned"
    /\ newRet.err = NilError
    /\ ~newRet.instance.dynamicCli.isNil
    /\ ~newRet.instance.gvrSchema.isNil
    /\ newRet.instance.resource # NilResource
    /\ newRet.instance.resource =
          Resource(LastOf(newRet.opts, "dynCli").cli, LastOf(newRet.opts, "gvr").schema)

\* outcome (b) of New: an error and the zero-value instance
FailedWithZeroValue ==
    /\ newRet.outcome = "returned"
    /\ newRet.err # NilError
    /\ newRet.instance = ZeroReporter

\* C3 (as stated): for every option list New returns outcome (a) or outcome
\* (b), and (a) exactly when both a client and a descriptor were supplied.
C3_NoPartialReporter ==
    newRet.called =>
        /\ FullyConfigured \/ FailedWithZeroValue
        /\ FullyConfigured <=>
              (HasDynamicClientOption(newRet.opts) /\ HasGVRSchemaOption(newRet.opts))

\* C10 (as stated): New always completes: it returns a configuration error,
\* or it returns without error a Reporter whose handle is bound to a client;
\* it never panics.
C10_NewAlwaysCompletes ==
    newRet.called =>
        /\ newRet.outcome = "returned"
        /\ \/ newRet.err \in {NoDynamicCliSetError, NoGroupVersionResourceSetError}
           \/ /\ newRet.err = NilError
              /\ newRet.instance.dynamicCli.iface # NilIface
              /\ newRet.instance.resource.cli # NilIface

-----------------------------------------------------------------------------
(* Read operations: C4 .. C9 (checked under Spec) *)

\* the resource type the Reporter was configured with
ConfiguredGVR == LastOf(newRet.opts, "gvr").schema

\* the instances the store holds for (configured resource type, namespace)
HeldIn(namespace) ==
    {o \in store : GVROf(o) = ConfiguredGVR /\ o.namespace = namespace}

\* the instances the store's list query for the call's namespace and options
\* covers: the configured type; the namespace, or all namespaces when it is
\* empty; the label selector, when there is one
Covered ==
    {o \in store :
        /\ GVROf(o) = ConfiguredGVR
        /\ ret.namespace # "" => o.namespace = ret.namespace
        /\ ret.selector # "" => o.data = "labelled"}

\* the YAML text of an instance
YamlOf(o) == Marshal(o).out

\* the returned strings are the YAML texts of exactly the instances of S, one
\* each, in the order the store returned the instances
ExactlyInStoreOrder(S) ==
    /\ Len(ret.list.elems) = Cardinality(S)
    /\ \A o \in S : \E i \in DOMAIN ret.list.elems : ret.list.elems[i] = YamlOf(o)
    /\ \A i \in DOMAIN ret.list.elems : \E o \in S : ret.list.elems[i] = YamlOf(o)
    /\ Len(ret.items) = Len(ret.list.elems)
    /\ \A i \in DOMAIN ret.list.elems : ret.list.elems[i] = YamlOf(ret.items[i])

\* C4 (as stated): a successful List returns one YAML string per instance
\* held for the (resource type, namespace) pair, whatever the namespace and
\* the options, in the store's order.
C4_ListExactlyHeld ==
    (ret.op = "List" /\ ret.err = NilError) => ExactlyInStoreOrder(HeldIn(ret.namespace))

\* C4 (amended): a successful List returns one YAML string per instance the
\* store's query covers - the instances held for the (resource type,
\* namespace) pair when the namespace is not empty and the options carry no
\* selector; those of every namespace when the namespace is empty; only those
\* the selector matches when the options carry one - none missing, none
\* duplicated, none of another type, in the store's order.
C4_ListExactlyCovered ==
    (ret.op = "List" /\ ret.err = NilError) =>
        /\ ExactlyInStoreOrder(Covered)
        /\ (ret.namespace # "" /\ ret.selector = "") => Covered = HeldIn(ret.namespace)

\* C4 witness: a List of ns-foo without selector returned the one instance
\* held there while the store held a second object that is not returned
C4_Witness ==
    /\ ret.op = "List"
    /\ ret.err = NilError
    /\ ret.namespace = "ns-foo"
    /\ ret.selector = ""
    /\ Len(ret.list.elems) = 1
    /\ Cardinality(store) = 2

\* C5 (as stated): when the store holds no instance of the configured type in
\* the requested namespace, List returns an empty sequence and no error.
C5_EmptyWhenNoneHeld ==
    (ret.op = "List" /\ HeldIn(ret.namespace) = {}) =>
        (ret.err = NilError /\ Len(ret.list.elems) = 0)

\* C5 (amended): when the store answers the query and the query covers no
\* instance - as when the requested namespace is not empty and holds no
\* instance of the configured type - List returns an empty sequence and no
\* error.
C5_EmptyWhenNoneCovered ==
    /\ (ret.op = "List" /\ ret.fault = "none" /\ Covered = {}) =>
            (ret.err = NilError /\ Len(ret.list.elems) = 0)
    /\ (ret.op = "List" /\ ret.fault = "none" /\ ret.namespace # ""
            /\ HeldIn(ret.namespace) = {}) =>
            (ret.err = NilError /\ Len(ret.list.elems) = 0)

\* C5 witness: a List of ns-foo returned the empty sequence while the store
\* held an instance of the configured type in another namespace
C5_Witness ==
    /\ ret.op = "List"
    /\ ret.namespace = "ns-foo"
    /\ ret.err = NilError
    /\ Len(ret.list.elems) = 0
    /\ \E o \in store : GVROf(o) = ConfiguredGVR /\ o.namespace = "ns-bar"

\* C6: List is all-or-nothing: when the store's list call fails, or when the
\* serialization of any returned instance fails, List returns that error and
\* no results at all.
C6_ListAllOrNothing ==
    ret.op = "List" =>
        /\ ret.err # NilError => ret.list = NilSlice
        /\ ret.fault # "none" => ret.err = StoreError
        /\ (ret.fault = "none" /\ \E i \in DOMAIN ret.items : ret.items[i].data = "nan")
                => ret.err = MarshalError

\* C6 witness: serialization failed on the second instance, after the first
\* one had been serialized
C6_Witness ==
    /\ ret.op = "List"
    /\ ret.err = MarshalError
    /\ Len(ret.items) >= 2
    /\ ret.items[1].data # "nan"
    /\ ret.items[2].data = "nan"

\* the instances identified by (configured type, namespace, name) of the call
Identified ==
    {o \in store :
        GVROf(o) = ConfiguredGVR /\ o.namespace = ret.namespace /\ o.name = ret.name}

\* C7: Get returns without error the YAML text of the one instance identified
\* by (configured type, namespace, name), carrying its name, namespace and
\* version; a not-found error when the store holds no such instance; and the
\* empty string with every error (not-found, access error, serialization
\* error).
C7_GetOneOrNotFound ==
    ret.op = "Get" =>
        /\ ret.err # NilError => ret.str = EmptyString
        /\ ret.fault # "none" => ret.err = StoreError
        /\ (ret.fault = "none" /\ Identified = {}) => ret.err = NotFoundError
        /\ \A o \in Identified :
            /\ Identified = {o}
            /\ (ret.fault = "none" /\ o.data = "nan") => ret.err = MarshalError
            /\ (ret.fault = "none" /\ o.data # "nan") =>
                /\ ret.err = NilError
                /\ ret.str = YamlOf(o)
                /\ ContainsSubstring(ret.str, ret.name)
                /\ ContainsSubstring(ret.str, ret.namespace)
                /\ ContainsSubstring(ret.str, ConfiguredGVR.version)

\* C7 witness: Get returned the text of one instance while the store held
\* another instance of the same name
C7_Witness ==
    /\ ret.op = "Get"
    /\ ret.err = NilError
    /\ ret.str # EmptyString
    /\ \E o \in store : o.name = ret.name /\ o \notin Identified

\* C8: every call sends exactly one query to the store, so that its result
\* is that of the store as it is at the call, and a failure of the store is
\* returned at the first attempt.
C8_OneQueryPerCall ==
    ret.op # "none" =>
        /\ ret.queries = 1
        /\ ret.fault # "none" => ret.err = StoreError
        /\ (ret.fault = "none" /\ ret.op = "List") =>
                {ret.items[i] : i \in DOMAIN ret.items} = Covered
        /\ (ret.fault = "none" /\ ret.op = "Get") =>
                {ret.items[i] : i \in DOMAIN ret.items} = Identified

\* C8 witness: the store failed at the first query of a List, and List
\* returned that failure after this one query
C8_Witness ==
    /\ ret.op = "List"
    /\ ret.fault = "transient"
    /\ ret.err = StoreError
    /\ ret.queries = 1
    /\ store # {}

\* what a call with a live context can return for the arguments of ret
LiveOutcomes ==
    IF ret.op = "List"
    THEN {[items |-> got.items, list |-> got.list, str |-> EmptyString,
           err |-> got.err, queries |-> got.queries] :
            got \in {List(newRet.instance, "live", ret.namespace,
                          [labelSelector |-> ret.selector], srv) :
                        srv \in {b \in StoreBehaviours : b.fault = ret.fault}}}
    ELSE {[items |-> got.items, list |-> NilSlice, str |-> got.str,
           err |-> got.err, queries |-> got.queries] :
            got \in {Get(newRet.instance, "live", ret.name, ret.namespace, options, srv) :
                        options \in GetOptionsSet,
                        srv \in {b \in StoreBehaviours : b.fault = ret.fault}}}

\* C9: a call made with a cancelled context sends the same query and returns
\* the same result and error as the call made with a live context.
C9_ContextIgnored ==
    (ret.op # "none" /\ ret.ctx = "cancelled") =>
        [items |-> ret.items, list |-> ret.list, str |-> ret.str,
         err |-> ret.err, queries |-> ret.queries] \in LiveOutcomes

\* C9 witness: a Get made with a cancelled context returned an instance
C9_Witness ==
    /\ ret.op = "Get"
    /\ ret.ctx = "cancelled"
    /\ ret.err = NilError
    /\ ret.queries = 1

====
